---------------------------- MODULE Spec2Model ----------------------------
(***************************************************************************)
(* Model of collector/monitor.go: the per-container Monitor of             *)
(* collectd-docker.  NewMonitor inspects a container, resolves its app and *)
(* task identities from labels and environment entries, expands them into  *)
(* a tag map, and handle() forwards every interval-th raw stats snapshot,  *)
(* tagged, to an output channel.                                           *)
(*                                                                         *)
(* A Go string is a sequence of symbols.  A symbol is one character, or,   *)
(* for the fixed key names that the code only ever compares whole (label   *)
(* names, environment variable names), the name itself.                    *)
(***************************************************************************)
EXTENDS Integers, Sequences, FiniteSets, TLC

VARIABLES
    container,   \* the *docker.Container the code works on (Config.Labels, Config.Env)
    inspectErr,  \* whether InspectContainer returned an error (NewMonitor, line 62)
    appVar,      \* extractApp's local `app` before the trim step (lines 116-123)
    taskVar,     \* extractTask's local `task` before the trim step (lines 134-141)
    app,         \* the value extractApp returned (line 66)
    task,        \* the value extractTask returned (line 74)
    tags,        \* NewMonitor's local map `tags` (line 61)
    step,        \* position inside the straight-line code a specification walks
    m,           \* the *Monitor NewMonitor returned (Nil when none)
    err,         \* the error NewMonitor returned ("none" before the call)
    hpc,         \* handle(): "idle", "stats" (blocked in client.Stats), "returned"
    herr,        \* the error handle() returned
    gpc,         \* the goroutine of handle(): "none","range","test","send","done","panic"
    i,           \* the goroutine's counter i (line 92)
    s,           \* the goroutine's loop variable s: the raw snapshot it holds (line 93)
    inq,         \* channel `in`: snapshots handed over by Stats, not yet taken by range
    inClosed,    \* whether `in` has been closed
    pushed,      \* number of raw snapshots Stats has pushed into `in`
    ch,          \* the output channel's buffer
    sent,        \* every Stats value whose send on ch completed, in order
    afterRet     \* how many of those sends completed after handle() had returned

resolveVars == <<appVar, taskVar, app, task, tags, step>>
monitorVars == <<m, err>>
handleVars  == <<hpc, herr, gpc, i, s, inq, inClosed, pushed, ch, sent, afterRet>>
vars == <<container, inspectErr, appVar, taskVar, app, task, tags, step, m, err,
          hpc, herr, gpc, i, s, inq, inClosed, pushed, ch, sent, afterRet>>

-----------------------------------------------------------------------------
(* Bounds of the model *)

MaxAppLen == 7      \* longest app identity the tag expansion is applied to
MaxTaskLen == 5     \* longest task identity the tag expansion is applied to
MaxInterval == 3    \* largest interval NewMonitor is called with
MaxNegInterval == 1 \* NewMonitor is called with intervals down to -MaxNegInterval
MaxRaw == 5         \* raw snapshots the stats stream delivers at most
ChanCap == 1        \* capacity of the caller's output channel ch

-----------------------------------------------------------------------------
(* package strings, strconv, regexp *)

EmptyString == <<>>

\* strings.HasPrefix(str, prefix)
HasPrefix(str, prefix) ==
    /\ Len(prefix) <= Len(str)
    /\ SubSeq(str, 1, Len(prefix)) = prefix

\* strings.TrimPrefix(str, prefix): str without the leading prefix, once
TrimPrefix(str, prefix) ==
    IF HasPrefix(str, prefix) THEN SubSeq(str, Len(prefix) + 1, Len(str)) ELSE str

\* strings.Index(str, sep) for a one-symbol sep: 1-based, 0 when absent
RECURSIVE IndexFrom(_, _, _)
IndexFrom(str, sep, p) ==
    IF p > Len(str) THEN 0
    ELSE IF str[p] = sep THEN p
    ELSE IndexFrom(str, sep, p + 1)

\* strings.Split(str, sep) for a one-symbol sep
RECURSIVE StringsSplit(_, _)
StringsSplit(str, sep) ==
    LET p == IndexFrom(str, sep, 1) IN
    IF p = 0 THEN <<str>>
    ELSE <<SubSeq(str, 1, p - 1)>> \o StringsSplit(SubSeq(str, p + 1, Len(str)), sep)

\* strings.Join(elems, sep)
RECURSIVE StringsJoin(_, _)
StringsJoin(elems, sep) ==
    IF Len(elems) = 0 THEN EmptyString
    ELSE IF Len(elems) = 1 THEN elems[1]
    ELSE elems[1] \o <<sep>> \o StringsJoin(Tail(elems), sep)

\* strconv.Itoa
Itoa(n) == ToString(n)

\* splitregexp = regexp.MustCompile("[-.]"): the symbols it matches
splitregexp == {"-", "."}

\* splitregexp.FindAllStringIndex(str, -1): every match [p-1, p), as its end p
RECURSIVE FindAllIndex(_, _)
FindAllIndex(str, p) ==
    IF p > Len(str) THEN <<>>
    ELSE IF str[p] \in splitregexp THEN <<p>> \o FindAllIndex(str, p + 1)
    ELSE FindAllIndex(str, p + 1)

\* the loop of regexp.Split over the matches; beg and end are Go's 0-based offsets
RECURSIVE SplitLoop(_, _, _, _, _, _)
SplitLoop(str, matches, k, beg, end, acc) ==
    IF k > Len(matches)
    THEN IF end # Len(str) THEN Append(acc, SubSeq(str, beg + 1, Len(str))) ELSE acc
    ELSE LET match0 == matches[k] - 1
             match1 == matches[k]
         IN SplitLoop(str, matches, k + 1, match1, match0,
                      IF match1 # 0 THEN Append(acc, SubSeq(str, beg + 1, match0))
                                    ELSE acc)

\* a split that drops the empty segments, as strings.FieldsFunc would
RegexpSplitNoEmpty(str) ==
    SelectSeq(SplitLoop(str, FindAllIndex(str, 1), 1, 0, 0, <<>>),
              LAMBDA x : x # EmptyString)

\* splitregexp.Split(str, -1)
RegexpSplit(str) ==
    IF Len(str) = 0 THEN <<EmptyString>>
    ELSE SplitLoop(str, FindAllIndex(str, 1), 1, 0, 0, <<>>)

-----------------------------------------------------------------------------
(* map[string]string *)

EmptyTags == <<>>

\* tags[k] = v
Put(t, k, v) == [x \in DOMAIN t \cup {k} |-> IF x = k THEN v ELSE t[x]]

-----------------------------------------------------------------------------
(* Tag expansion *)

\* the for loop of extractTagsFromApp stopping one prefix early
RECURSIVE GroupLoopShort(_, _, _)
GroupLoopShort(t, split, n) ==
    IF n < Len(split) - 1
    THEN GroupLoopShort(Put(t, "group" \o Itoa(n),
                            StringsJoin(SubSeq(split, 1, n + 1), "/")),
                        split, n + 1)
    ELSE t

\* the for loop of extractTagsFromApp (lines 183-185)
RECURSIVE GroupLoop(_, _, _)
GroupLoop(t, split, n) ==
    IF n < Len(split)
    THEN GroupLoop(Put(t, "group" \o Itoa(n), StringsJoin(SubSeq(split, 1, n + 1), "/")),
                   split, n + 1)
    ELSE t

\* extractTagsFromApp with the group threshold off by one (len(split) < 1)
extractTagsFromAppLowThreshold(t, a) ==
    LET t1 == Put(t, "app_id", a)
        split0 == StringsSplit(a, "/")
        t2 == Put(t1, "app", split0[Len(split0)])
        split == SubSeq(split0, 1, Len(split0) - 1)
    IN IF Len(split) < 1
       THEN Put(t2, "group", <<"/">>)
       ELSE GroupLoop(Put(t2, "group", StringsJoin(split, "/")), split, 1)

extractTagsFromApp(t, a) ==
    LET t1 == Put(t, "app_id", a)
        split0 == StringsSplit(a, "/")
        t2 == Put(t1, "app", split0[Len(split0)])
        split == SubSeq(split0, 1, Len(split0) - 1)
    IN IF Len(split) <= 1
       THEN Put(t2, "group", <<"/">>)
       ELSE GroupLoop(Put(t2, "group", StringsJoin(split, "/")), split, 1)

\* the for loop of extractTagsFromTask (lines 194-196); n is Go's index i
RECURSIVE TaskLoop(_, _, _)
TaskLoop(t, split, n) ==
    IF n < Len(split)
    THEN TaskLoop(Put(t, "task" \o Itoa(n + 1), split[n + 1]), split, n + 1)
    ELSE t

extractTagsFromTask(t, k) ==
    LET split == RegexpSplit(k)
    IN TaskLoop(Put(t, "task", k), split, 0)

-----------------------------------------------------------------------------
(* Configuration (lines 23-35), with the defaults Getenv falls back to *)

appLabel == <<"app_id">>
appLocationLabel == <<"collectd_docker_app_label">>
taskLabel == <<"collectd_docker_task">>
taskLocationLabel == <<"collectd_docker_task_label">>

appEnvPrefix == <<"MARATHON_APP_ID", "=">>
appEnvLocationPrefix == <<"COLLECTD_DOCKER_APP_ENV", "=">>
appEnvLocationTrimPrefix == <<"COLLECTD_DOCKER_APP_ENV_TRIM_PREFIX", "=">>
taskEnvPrefix == <<"MESOS_TASK_ID", "=">>
taskEnvLocationPrefix == <<"COLLECTD_DOCKER_TASK_ENV", "=">>
taskEnvLocationTrimPrefix == <<"COLLECTD_DOCKER_TASK_ENV_TRIM_PREFIX", "=">>

defaultTask == <<"d", "e", "f", "a", "u", "l", "t">>

-----------------------------------------------------------------------------
(* Identity resolution; c is a *docker.Container: [ID, Labels, Env] *)

\* the for loop of extractEnv (lines 165-169), from entry n on
RECURSIVE EnvLoop(_, _, _)
EnvLoop(env, envPrefix, n) ==
    IF n > Len(env) THEN EmptyString
    ELSE IF HasPrefix(env[n], envPrefix) THEN TrimPrefix(env[n], envPrefix)
    ELSE EnvLoop(env, envPrefix, n + 1)

extractEnv(c, envPrefix) == EnvLoop(c.Env, envPrefix, 1)

\* extractMetadata that treats a label with an empty value as absent
extractMetadataSkipEmpty(c, label, envPrefix, missing) ==
    IF label \in DOMAIN c.Labels /\ c.Labels[label] # EmptyString THEN c.Labels[label]
    ELSE LET env == extractEnv(c, envPrefix)
         IN IF env # EmptyString THEN env ELSE missing

extractMetadata(c, label, envPrefix, missing) ==
    IF label \in DOMAIN c.Labels THEN c.Labels[label]
    ELSE LET env == extractEnv(c, envPrefix)
         IN IF env # EmptyString THEN env ELSE missing

\* extractApp up to the trim step (lines 116-123): the local `app`
appIdentity(c) ==
    LET location == extractMetadata(c, appLocationLabel, appEnvLocationPrefix, EmptyString)
    IN IF location # EmptyString
       THEN extractMetadata(c, location, location \o <<"=">>, EmptyString)
       ELSE extractMetadata(c, appLabel, appEnvPrefix, EmptyString)

\* the app trim step reading the task's trim-prefix entry
appTrimTaskKey(c, a) ==
    LET prefix == extractEnv(c, taskEnvLocationTrimPrefix)
    IN IF prefix # EmptyString THEN TrimPrefix(a, prefix) ELSE a

\* the trim step of extractApp (lines 125-130)
appTrim(c, a) ==
    LET prefix == extractEnv(c, appEnvLocationTrimPrefix)
    IN IF prefix # EmptyString THEN TrimPrefix(a, prefix) ELSE a

extractApp(c) == appTrim(c, appIdentity(c))

\* extractTask up to the trim step (lines 134-141): the local `task`
taskIdentity(c) ==
    LET location == extractMetadata(c, taskLocationLabel, taskEnvLocationPrefix, EmptyString)
    IN IF location # EmptyString
       THEN extractMetadata(c, location, location \o <<"=">>, defaultTask)
       ELSE extractMetadata(c, taskLabel, taskEnvPrefix, defaultTask)

\* the trim step of extractTask (lines 143-148)
taskTrim(c, k) ==
    LET prefix == extractEnv(c, taskEnvLocationTrimPrefix)
    IN IF prefix # EmptyString THEN TrimPrefix(k, prefix) ELSE k

extractTask(c) == taskTrim(c, taskIdentity(c))

-----------------------------------------------------------------------------
(* Input domains *)

\* every string over alphabet of length at most n
StringsUpTo(alphabet, n) == UNION {[1..k -> alphabet] : k \in 0..n}

InfraWebApi == <<"/", "i", "n", "f", "r", "a", "/", "w", "e", "b", "/", "a", "p", "i">>
WorkerCanary ==
    <<"w", "o", "r", "k", "e", "r", "-", "7", ".", "c", "a", "n", "a", "r", "y">>

AppStrings == StringsUpTo({"a", "b", "/"}, MaxAppLen) \cup {InfraWebApi}
TaskStrings == StringsUpTo({"w", "7", "-", "."}, MaxTaskLen) \cup {WorkerCanary}

\* a Go map from a set of <<key, value>> pairs with distinct keys
MapOf(pairs) ==
    [k \in {p[1] : p \in pairs} |-> (CHOOSE p \in pairs : p[1] = k)[2]]

\* an optional value: the empty set or a singleton
Opt(values) == {{}} \cup {{v} : v \in values}

OptPair(key, o) == {<<key, v>> : v \in o}
OptEntry(envPrefix, o) ==
    IF o = {} THEN <<>> ELSE <<envPrefix \o (CHOOSE v \in o : TRUE)>>

\* names a location key may hold: L names a label and an env entry that may
\* exist, M names nothing
NameL == <<"L">>
NameM == <<"M">>

NoContainer == [ID |-> "", Labels |-> <<>>, Env |-> <<>>]

\* Containers whose metadata exercises one identity (kind "app" or "task"):
\* every combination of presence, emptiness and value of the four sources,
\* of the keys a location may name, and of the two trim-prefix entries.
KindContainers(locLabel, dirLabel, locEnv, dirEnv, trimEnv, otherTrimEnv) ==
    { [ID |-> "c0",
       Labels |-> MapOf(OptPair(locLabel, ll) \cup OptPair(dirLabel, dl)
                        \cup OptPair(NameL, nl)),
       Env |-> OptEntry(otherTrimEnv, ot) \o OptEntry(dirEnv, de)
               \o OptEntry(NameL \o <<"=">>, ne) \o OptEntry(locEnv, le)
               \o OptEntry(trimEnv, tr)] :
        ll \in Opt({EmptyString, NameL, NameM}),
        dl \in Opt({EmptyString, <<"p", "d">>}),
        nl \in Opt({EmptyString, <<"p", "p", "x">>}),
        le \in Opt({EmptyString, NameL, NameM}),
        de \in Opt({EmptyString, <<"e">>}),
        ne \in Opt({EmptyString, <<"p", "q">>}),
        tr \in Opt({EmptyString, <<"p">>, <<"d">>, <<"p", "d">>}),
        ot \in Opt({<<"d">>}) }

ResolveContainers ==
    KindContainers(appLocationLabel, appLabel, appEnvLocationPrefix, appEnvPrefix,
                   appEnvLocationTrimPrefix, taskEnvLocationTrimPrefix)
    \cup KindContainers(taskLocationLabel, taskLabel, taskEnvLocationPrefix,
                        taskEnvPrefix, taskEnvLocationTrimPrefix,
                        appEnvLocationTrimPrefix)

-----------------------------------------------------------------------------
(* Initial values of the state a specification does not use *)

Nil == [nil |-> TRUE]

InitResolve ==
    /\ appVar = EmptyString
    /\ taskVar = EmptyString
    /\ app = EmptyString
    /\ task = EmptyString
    /\ tags = EmptyTags

InitMonitor ==
    /\ inspectErr = FALSE
    /\ m = Nil
    /\ err = "none"

InitHandle ==
    /\ hpc = "idle"
    /\ herr = "none"
    /\ gpc = "none"
    /\ i = 0
    /\ s = 0
    /\ inq = <<>>
    /\ inClosed = FALSE
    /\ pushed = 0
    /\ ch = <<>>
    /\ sent = <<>>
    /\ afterRet = 0

-----------------------------------------------------------------------------
(* SpecTags: the tag expansion of NewMonitor (lines 61, 72, 75) applied to  *)
(* every app and task identity of the input domains                        *)

InitTags ==
    /\ container = NoContainer
    /\ InitMonitor /\ InitHandle
    /\ appVar = EmptyString
    /\ taskVar = EmptyString
    /\ tags = EmptyTags
    /\ step = "app"
    /\ \/ app \in AppStrings /\ task = defaultTask
       \/ app = <<"a">> /\ task \in TaskStrings

TagsFromApp ==
    /\ step = "app"
    /\ tags' = extractTagsFromApp(tags, app)
    /\ step' = "task"
    /\ UNCHANGED <<container, inspectErr, appVar, taskVar, app, task>>
    /\ UNCHANGED monitorVars /\ UNCHANGED handleVars

TagsFromTask ==
    /\ step = "task"
    /\ tags' = extractTagsFromTask(tags, task)
    /\ step' = "tagged"
    /\ UNCHANGED <<container, inspectErr, appVar, taskVar, app, task>>
    /\ UNCHANGED monitorVars /\ UNCHANGED handleVars

NextTags == TagsFromApp \/ TagsFromTask

SpecTags == InitTags /\ [][NextTags]_vars

-----------------------------------------------------------------------------
(* SpecResolve: extractApp then extractTask, as NewMonitor calls them       *)
(* (lines 66, 74), on every container of ResolveContainers                 *)

InitResolveSpec ==
    /\ container \in ResolveContainers
    /\ InitResolve /\ InitMonitor /\ InitHandle
    /\ step = "extractApp"

ResolveApp ==
    /\ step = "extractApp"
    /\ appVar' = appIdentity(container)
    /\ step' = "trimApp"
    /\ UNCHANGED <<container, inspectErr, taskVar, app, task, tags>>
    /\ UNCHANGED monitorVars /\ UNCHANGED handleVars

TrimApp ==
    /\ step = "trimApp"
    /\ app' = appTrim(container, appVar)
    /\ step' = "extractTask"
    /\ UNCHANGED <<container, inspectErr, appVar, taskVar, task, tags>>
    /\ UNCHANGED monitorVars /\ UNCHANGED handleVars

ResolveTask ==
    /\ step = "extractTask"
    /\ taskVar' = taskIdentity(container)
    /\ step' = "trimTask"
    /\ UNCHANGED <<container, inspectErr, appVar, app, task, tags>>
    /\ UNCHANGED monitorVars /\ UNCHANGED handleVars

TrimTask ==
    /\ step = "trimTask"
    /\ task' = taskTrim(container, taskVar)
    /\ step' = "resolved"
    /\ UNCHANGED <<container, inspectErr, appVar, taskVar, app, tags>>
    /\ UNCHANGED monitorVars /\ UNCHANGED handleVars

NextResolve == ResolveApp \/ TrimApp \/ ResolveTask \/ TrimTask

SpecResolve == InitResolveSpec /\ [][NextResolve]_vars

-----------------------------------------------------------------------------
(* NewMonitor (lines 60-86) *)

\* the containers InspectContainer may describe
MonitorContainers ==
    { [ID |-> "c1", Labels |-> MapOf({<<appLabel, InfraWebApi>>}), Env |-> <<>>],
      [ID |-> "c2", Labels |-> <<>>, Env |-> <<>>],
      [ID |-> "c3", Labels |-> MapOf({<<taskLabel, <<"w", "-", "7">>>>}),
                    Env |-> <<taskEnvPrefix \o <<"w">>>>],
      [ID |-> "c4", Labels |-> MapOf({<<appLabel, <<"p", "d">>>>}),
                    Env |-> <<appEnvLocationTrimPrefix \o <<"p", "d">>>>],
      [ID |-> "c5", Labels |-> MapOf({<<appLocationLabel, NameL>>,
                                      <<NameL, <<"a", "/", "b">>>>,
                                      <<taskLabel, <<"w", "-", "7">>>>}),
                    Env |-> <<>>] }

Intervals == (0 - MaxNegInterval)..MaxInterval

\* the test `app == ""` (line 68), never true
NoNeedNever(a) == FALSE

\* the test `app == ""` (line 68)
NoNeedToMonitor(a) == a = EmptyString

NewMonitor ==
    /\ err = "none"
    /\ step = "new"
    /\ \E c \in MonitorContainers, fails \in BOOLEAN, interval \in Intervals :
          /\ container' = c
          /\ inspectErr' = fails
          /\ IF fails
             THEN /\ m' = Nil
                  /\ err' = "InspectError"
                  /\ UNCHANGED <<appVar, taskVar, app, task, tags>>
             ELSE IF NoNeedToMonitor(extractApp(c))
             THEN /\ appVar' = appIdentity(c)
                  /\ app' = extractApp(c)
                  /\ m' = Nil
                  /\ err' = "ErrNoNeedToMonitor"
                  /\ UNCHANGED <<taskVar, task, tags>>
             ELSE /\ appVar' = appIdentity(c)
                  /\ app' = extractApp(c)
                  /\ taskVar' = taskIdentity(c)
                  /\ task' = extractTask(c)
                  /\ tags' = extractTagsFromTask(
                                 extractTagsFromApp(EmptyTags, extractApp(c)),
                                 extractTask(c))
                  /\ m' = [id |-> c.ID, app |-> app', task |-> task', tags |-> tags',
                           interval |-> interval]
                  /\ err' = "nil"
    /\ step' = "monitor"
    /\ UNCHANGED handleVars

-----------------------------------------------------------------------------
(* Monitor.handle (lines 88-113) *)

\* make(chan *docker.Stats) with a buffer of one
InCapBuffered == 0 + 1

\* capacity of `in`: make(chan *docker.Stats) is unbuffered (line 89)
InCap == 0

Abs(n) == IF n < 0 THEN 0 - n ELSE n

\* Go's a % b for b # 0: the remainder has the sign of a
GoRem(a, b) == IF a >= 0 THEN a % Abs(b) ELSE 0 - ((0 - a) % Abs(b))

\* the test of line 94 with the counter taken one too far
SampledOffByOne(n, interval) == GoRem(n + 1, interval) = 0

\* the negation of the test of line 94: snapshot number n is forwarded
Sampled(n, interval) == GoRem(n, interval) = 0

\* `for s := range in` that never sees the channel closed
RangeNeverExits(closed, queue) == FALSE

\* `for s := range in` leaves the loop: in is closed and drained (line 93)
RangeExits(closed, queue) == closed /\ queue = <<>>

\* handle creates `in`, starts the goroutine and calls client.Stats
HandleStart ==
    /\ m # Nil
    /\ hpc = "idle"
    /\ hpc' = "stats"
    /\ gpc' = "range"
    /\ i' = 0
    /\ UNCHANGED <<herr, s, inq, inClosed, pushed, ch, sent, afterRet>>
    /\ UNCHANGED <<container, inspectErr>> /\ UNCHANGED resolveVars
    /\ UNCHANGED monitorVars

\* client.Stats hands the next raw snapshot to `in`: with an unbuffered `in`
\* only while the goroutine waits in range
StreamPush ==
    /\ hpc = "stats"
    /\ gpc # "panic"
    /\ pushed < MaxRaw
    /\ Len(inq) < InCap + (IF gpc = "range" THEN 1 ELSE 0)
    /\ inq' = Append(inq, pushed)
    /\ pushed' = pushed + 1
    /\ UNCHANGED <<hpc, herr, gpc, i, s, inClosed, ch, sent, afterRet>>
    /\ UNCHANGED <<container, inspectErr>> /\ UNCHANGED resolveVars
    /\ UNCHANGED monitorVars

\* client.Stats returns (nil on a clean end, an error otherwise), closing
\* `in`, and handle returns that value (line 108)
StreamEnd ==
    /\ hpc = "stats"
    /\ gpc # "panic"
    /\ Len(inq) <= InCap
    /\ \E e \in {"nil", "StreamError"} : herr' = e
    /\ inClosed' = TRUE
    /\ hpc' = "returned"
    /\ UNCHANGED <<gpc, i, s, inq, pushed, ch, sent, afterRet>>
    /\ UNCHANGED <<container, inspectErr>> /\ UNCHANGED resolveVars
    /\ UNCHANGED monitorVars

\* the goroutine receives the next snapshot from `in` (line 93)
GoRecv ==
    /\ gpc = "range"
    /\ inq # <<>>
    /\ s' = Head(inq)
    /\ inq' = Tail(inq)
    /\ gpc' = "test"
    /\ UNCHANGED <<hpc, herr, i, inClosed, pushed, ch, sent, afterRet>>
    /\ UNCHANGED <<container, inspectErr>> /\ UNCHANGED resolveVars
    /\ UNCHANGED monitorVars

\* the goroutine finds `in` closed and ends (lines 93, 105-106)
GoRangeEnd ==
    /\ gpc = "range"
    /\ RangeExits(inClosed, inq)
    /\ gpc' = "done"
    /\ UNCHANGED <<hpc, herr, i, s, inq, inClosed, pushed, ch, sent, afterRet>>
    /\ UNCHANGED <<container, inspectErr>> /\ UNCHANGED resolveVars
    /\ UNCHANGED monitorVars

\* the goroutine evaluates i%m.interval (lines 94-97): a zero interval panics
\* (integer divide by zero) and takes the process down
GoTest ==
    /\ gpc = "test"
    /\ IF m.interval = 0
       THEN gpc' = "panic" /\ UNCHANGED i
       ELSE IF ~Sampled(i, m.interval)
       THEN gpc' = "range" /\ i' = i + 1
       ELSE gpc' = "send" /\ UNCHANGED i
    /\ UNCHANGED <<hpc, herr, s, inq, inClosed, pushed, ch, sent, afterRet>>
    /\ UNCHANGED <<container, inspectErr>> /\ UNCHANGED resolveVars
    /\ UNCHANGED monitorVars

\* the send on ch completes (lines 99-104)
GoSend ==
    /\ gpc = "send"
    /\ Len(ch) < ChanCap
    /\ ch' = Append(ch, [Tags |-> m.tags, Stats |-> s])
    /\ sent' = Append(sent, [Tags |-> m.tags, Stats |-> s])
    /\ afterRet' = IF hpc = "returned" THEN afterRet + 1 ELSE afterRet
    /\ i' = i + 1
    /\ gpc' = "range"
    /\ UNCHANGED <<hpc, herr, s, inq, inClosed, pushed>>
    /\ UNCHANGED <<container, inspectErr>> /\ UNCHANGED resolveVars
    /\ UNCHANGED monitorVars

\* the caller's consumer takes one tagged snapshot from ch
Consume ==
    /\ gpc # "panic"
    /\ ch # <<>>
    /\ ch' = Tail(ch)
    /\ UNCHANGED <<hpc, herr, gpc, i, s, inq, inClosed, pushed, sent, afterRet>>
    /\ UNCHANGED <<container, inspectErr>> /\ UNCHANGED resolveVars
    /\ UNCHANGED monitorVars

-----------------------------------------------------------------------------
(* Spec: one NewMonitor call, then handle with its goroutine, the stats     *)
(* stream and the consumer of the output channel                           *)

Init ==
    /\ container = NoContainer
    /\ InitResolve /\ InitMonitor /\ InitHandle
    /\ step = "new"

Next ==
    \/ NewMonitor
    \/ HandleStart
    \/ StreamPush
    \/ StreamEnd
    \/ GoRecv
    \/ GoRangeEnd
    \/ GoTest
    \/ GoSend
    \/ Consume

Spec == Init /\ [][Next]_vars

\* the Go scheduler runs a goroutine that can take a step, and the consumer
\* of ch keeps receiving
FairSpec ==
    /\ Spec
    /\ WF_vars(GoRecv)
    /\ WF_vars(GoRangeEnd)
    /\ WF_vars(GoTest)
    /\ WF_vars(GoSend)
    /\ WF_vars(Consume)

-----------------------------------------------------------------------------
(* Vocabulary of the properties *)

\* positions of str that hold a separator
SepPositions(str, seps) == {p \in 1..Len(str) : str[p] \in seps}

\* the k-th smallest element of a set of numbers
Kth(S, k) == CHOOSE p \in S : Cardinality({q \in S : q < p}) = k - 1

\* number of segments of str cut at every separator
SegmentCount(str, seps) == Cardinality(SepPositions(str, seps)) + 1

\* where segment k of str starts and ends
SegmentStart(str, seps, k) ==
    IF k = 1 THEN 1 ELSE Kth(SepPositions(str, seps), k - 1) + 1
SegmentEnd(str, seps, k) ==
    IF k = SegmentCount(str, seps) THEN Len(str)
    ELSE Kth(SepPositions(str, seps), k) - 1

\* segment k of str, and segments 1..k with the separators between them
Segment(str, seps, k) == SubSeq(str, SegmentStart(str, seps, k), SegmentEnd(str, seps, k))
UpToSegment(str, seps, k) == SubSeq(str, 1, SegmentEnd(str, seps, k))

IndexedKeys(name, n) == {name \o ToString(j) : j \in 1..n}

IsPrefixOf(p, r) == Len(p) <= Len(r) /\ \A j \in 1..Len(p) : r[j] = p[j]

HasLabel(c, name) == name \in DOMAIN c.Labels
LabelOrEmpty(c, name) == IF HasLabel(c, name) THEN c.Labels[name] ELSE EmptyString

\* the value of the first environment entry that starts with envPrefix
EnvValue(c, envPrefix) ==
    LET hits == {j \in 1..Len(c.Env) : IsPrefixOf(envPrefix, c.Env[j])}
    IN IF hits = {} THEN EmptyString
       ELSE LET j == CHOOSE h \in hits : \A g \in hits : h <= g
            IN SubSeq(c.Env[j], Len(envPrefix) + 1, Len(c.Env[j]))

FirstNonEmpty(values, missing) ==
    LET hits == {j \in 1..Len(values) : values[j] # EmptyString}
    IN IF hits = {} THEN missing
       ELSE values[CHOOSE h \in hits : \A g \in hits : h <= g]

-----------------------------------------------------------------------------
(* C6 *)

\* C6: for every app identity A with segments s1..sn (split on "/"),
\* extractTagsFromApp sets app_id = A and app = sn; if n - 1 <= 1 it sets
\* group = "/" and no group{i} key; otherwise group = s1..s(n-1) joined with
\* "/" and group{i} = s1..s(i+1) joined with "/" for every i in 1..n-2, and no
\* other group{i} key.
C6_AppTags ==
    step \in {"task", "tagged"} =>
        LET n == SegmentCount(app, {"/"})
            groupKeys == DOMAIN tags \cap IndexedKeys("group", Len(app) + 1)
        IN /\ {"app_id", "app", "group"} \subseteq DOMAIN tags
           /\ step = "task" => DOMAIN tags = {"app_id", "app", "group"} \cup groupKeys
           /\ tags["app_id"] = app
           /\ tags["app"] = Segment(app, {"/"}, n)
           /\ IF n - 1 <= 1
              THEN tags["group"] = <<"/">> /\ groupKeys = {}
              ELSE /\ tags["group"] = UpToSegment(app, {"/"}, n - 1)
                   /\ groupKeys = IndexedKeys("group", n - 2)
                   /\ \A j \in 1..(n - 2) :
                         tags["group" \o ToString(j)] = UpToSegment(app, {"/"}, j + 1)

\* "a/b/a/b" has been expanded: group = group2 = "a/b/a", group1 = "a/b"
C6_Witness ==
    /\ step = "task"
    /\ app = <<"a", "/", "b", "/", "a", "/", "b">>
    /\ tags = [app_id |-> app, app |-> <<"b">>,
               group |-> <<"a", "/", "b", "/", "a">>,
               group1 |-> <<"a", "/", "b">>,
               group2 |-> <<"a", "/", "b", "/", "a">>]

-----------------------------------------------------------------------------
(* C7 *)

\* C7: for every task identity T, extractTagsFromTask sets task = T and, with
\* s1..sn the segments obtained by cutting T at every single "-" or "."
\* (adjacent separators give empty segments, n = number of separators + 1),
\* task{i} = s_i for every i in 1..n and no other task{i} key.
C7_TaskTags ==
    step = "tagged" =>
        LET n == SegmentCount(task, {"-", "."})
        IN /\ "task" \in DOMAIN tags
           /\ tags["task"] = task
           /\ DOMAIN tags \cap IndexedKeys("task", Len(task) + 2) = IndexedKeys("task", n)
           /\ \A j \in 1..n : tags["task" \o ToString(j)] = Segment(task, {"-", "."}, j)

\* "worker-7.canary" has been expanded into task1..task3
C7_Witness ==
    /\ step = "tagged"
    /\ task = WorkerCanary
    /\ tags["task1"] = <<"w", "o", "r", "k", "e", "r">>
    /\ tags["task2"] = <<"7">>
    /\ tags["task3"] = <<"c", "a", "n", "a", "r", "y">>
    /\ "task4" \notin DOMAIN tags

-----------------------------------------------------------------------------
(* C3 *)

\* the four-step chain: the first of (1) the label named by the location
\* label, (2) the env entry named by the location env entry, (3) the direct
\* label, (4) the direct env entry that is non-empty, else `missing`
ChainIdentity(c, locLabel, locEnvPrefix, dirLabel, dirEnvPrefix, missing) ==
    LET step1 == IF HasLabel(c, locLabel) THEN LabelOrEmpty(c, c.Labels[locLabel])
                 ELSE EmptyString
        locEnv == EnvValue(c, locEnvPrefix)
        step2 == IF locEnv # EmptyString THEN EnvValue(c, locEnv \o <<"=">>)
                 ELSE EmptyString
        step3 == LabelOrEmpty(c, dirLabel)
        step4 == EnvValue(c, dirEnvPrefix)
    IN FirstNonEmpty(<<step1, step2, step3, step4>>, missing)

\* C3 as stated: the identity resolved before trimming is the value of the
\* first of the four steps that yields a non-empty value, and empty (app) or
\* "default" (task) only when none does; a location naming an absent key and
\* a label with an empty value fall through to the later steps.
C3_FallThroughChain ==
    /\ step \in {"trimApp", "extractTask", "trimTask", "resolved"} =>
          appVar = ChainIdentity(container, appLocationLabel, appEnvLocationPrefix,
                                 appLabel, appEnvPrefix, EmptyString)
    /\ step \in {"trimTask", "resolved"} =>
          taskVar = ChainIdentity(container, taskLocationLabel, taskEnvLocationPrefix,
                                  taskLabel, taskEnvPrefix, defaultTask)

\* the location in force: the location label's value when that label is
\* present (even empty), else the location env entry's value
LocationOf(c, locLabel, locEnvPrefix) ==
    IF HasLabel(c, locLabel) THEN c.Labels[locLabel] ELSE EnvValue(c, locEnvPrefix)

\* a label that is present decides, even with an empty value; else the env
\* entry when non-empty; else `missing`
LabelThenEnv(c, label, envPrefix, missing) ==
    IF HasLabel(c, label) THEN c.Labels[label]
    ELSE FirstNonEmpty(<<EnvValue(c, envPrefix)>>, missing)

SelectedIdentity(c, locLabel, locEnvPrefix, dirLabel, dirEnvPrefix, missing) ==
    LET location == LocationOf(c, locLabel, locEnvPrefix)
    IN IF location # EmptyString
       THEN LabelThenEnv(c, location, location \o <<"=">>, missing)
       ELSE LabelThenEnv(c, dirLabel, dirEnvPrefix, missing)

\* C3 amended: a non-empty location (location label if present, else location
\* env entry) selects the keys it names and only those: the identity is the
\* label it names if present, else the env entry it names if non-empty, else
\* empty/"default", with no fall through to the direct keys; without a
\* location the identity is the direct label if present, else the direct env
\* entry if non-empty, else empty/"default".  A label that is present with an
\* empty value is the result; the env entry is then not consulted.
C3_LocationSelects ==
    /\ step \in {"trimApp", "extractTask", "trimTask", "resolved"} =>
          appVar = SelectedIdentity(container, appLocationLabel, appEnvLocationPrefix,
                                    appLabel, appEnvPrefix, EmptyString)
    /\ step \in {"trimTask", "resolved"} =>
          taskVar = SelectedIdentity(container, taskLocationLabel, taskEnvLocationPrefix,
                                     taskLabel, taskEnvPrefix, defaultTask)

\* the location label names a label that is absent, the direct label holds
\* "pd", and the app resolved to empty
C3_Witness ==
    /\ step = "trimApp"
    /\ HasLabel(container, appLocationLabel)
    /\ container.Labels[appLocationLabel] = NameM
    /\ HasLabel(container, appLabel)
    /\ container.Labels[appLabel] = <<"p", "d">>
    /\ appVar = EmptyString

-----------------------------------------------------------------------------
(* C8 *)

\* final is resolved with one leading occurrence of prefix removed when prefix
\* is a non-empty prefix of resolved, and resolved unchanged otherwise
TrimmedOnce(resolved, prefix, final) ==
    IF prefix # EmptyString /\ IsPrefixOf(prefix, resolved)
    THEN prefix \o final = resolved
    ELSE final = resolved

\* C8: for app and task, each with its own trim-prefix environment key: if the
\* trim-prefix value P is non-empty and a prefix of the resolved identity R
\* (the "default" sentinel included), the final identity is R with exactly one
\* leading occurrence of P removed; otherwise it is R unchanged.  The app's
\* trim step reads only the app trim key, the task's only the task trim key.
C8_TrimPrefix ==
    /\ step \in {"extractTask", "trimTask", "resolved"} =>
          TrimmedOnce(appVar, EnvValue(container, appEnvLocationTrimPrefix), app)
    /\ step = "resolved" =>
          TrimmedOnce(taskVar, EnvValue(container, taskEnvLocationTrimPrefix), task)

\* app "ppx" trimmed by "p" to "px" (the second "p" kept) while the task trim
\* key holds "d" and turns the default task into "efault"
C8_Witness ==
    /\ step = "resolved"
    /\ EnvValue(container, appEnvLocationTrimPrefix) = <<"p">>
    /\ EnvValue(container, taskEnvLocationTrimPrefix) = <<"d">>
    /\ appVar = <<"p", "p", "x">>
    /\ app = <<"p", "x">>
    /\ taskVar = defaultTask
    /\ task = <<"e", "f", "a", "u", "l", "t">>

-----------------------------------------------------------------------------
(* C1 *)

\* the Stats fields of a sequence of tagged snapshots
StatsOf(items) == [n \in 1..Len(items) |-> items[n].Stats]

\* raw snapshots the goroutine has taken from `in`
Received == pushed - Len(inq)

CeilDiv(n, k) == (n + k - 1) \div k

\* C1: for a Monitor with interval k >= 1, at every point of the run the items
\* sent to the output channel are a prefix of <<{tags, r0}, {tags, rk},
\* {tags, r2k}, ...>> with tags the TagSet built in NewMonitor (raw snapshot j
\* is the number j), and once the first N raw snapshots are fully processed
\* exactly ceil(N/k) items have been forwarded.
C1_Sampling ==
    (m # Nil /\ m.interval >= 1) =>
        /\ \A n \in 1..Len(sent) :
              sent[n] = [Tags |-> tags, Stats |-> (n - 1) * m.interval]
        /\ m.tags = tags
        /\ gpc \in {"range", "done"} => Len(sent) = CeilDiv(Received, m.interval)

\* interval 2: all of r0..r4 processed, r0, r2, r4 forwarded
C1_Witness ==
    /\ m # Nil
    /\ m.interval = 2
    /\ gpc = "range"
    /\ Received = 5
    /\ StatsOf(sent) = <<0, 2, 4>>

-----------------------------------------------------------------------------
(* C2 *)

\* the app identity of c after the trim step is empty
AppIsEmpty(c) ==
    TrimmedOnce(SelectedIdentity(c, appLocationLabel, appEnvLocationPrefix,
                                 appLabel, appEnvPrefix, EmptyString),
                EnvValue(c, appEnvLocationTrimPrefix), EmptyString)

\* C2: NewMonitor has exactly three outcomes: (1) InspectContainer fails: that
\* error and no Monitor; (2) inspection succeeds and the app identity after the
\* trim step is empty: ErrNoNeedToMonitor and no Monitor, whatever the task
\* labels/env are; (3) otherwise a Monitor and a nil error.  The sentinel
\* differs from the inspect error, and without a Monitor the stats stream is
\* never opened and nothing is emitted.
C2_ThreeOutcomes ==
    /\ err = "none" => m = Nil
    /\ err # "none" =>
          /\ inspectErr => (m = Nil /\ err = "InspectError")
          /\ (~inspectErr /\ AppIsEmpty(container)) =>
                (m = Nil /\ err = "ErrNoNeedToMonitor")
          /\ (~inspectErr /\ ~AppIsEmpty(container)) => (m # Nil /\ err = "nil")
    /\ m = Nil =>
          (hpc = "idle" /\ gpc = "none" /\ pushed = 0 /\ inq = <<>> /\ sent = <<>>)

\* a container with task keys and no app key was declined
C2_Witness ==
    /\ err = "ErrNoNeedToMonitor"
    /\ m = Nil
    /\ ~inspectErr
    /\ HasLabel(container, taskLabel)
    /\ EnvValue(container, taskEnvPrefix) # EmptyString

-----------------------------------------------------------------------------
(* C4 *)

\* raw snapshots the unit has accepted and not yet dealt with
Undelivered == Len(inq) + (IF gpc \in {"test", "send"} THEN 1 ELSE 0)

IsIncreasing(seq) == \A a, b \in 1..Len(seq) : a < b => seq[a] < seq[b]

\* C4: a full or slow output destination only blocks the unit at the send:
\* while a send is pending the unit accepts no further raw snapshot (it holds
\* at most one received-but-undelivered snapshot), and every snapshot at a
\* sampled position that the unit has received has been sent, in order, or is
\* the one it holds: none is dropped, replaced or overtaken.
C4_Backpressure ==
    (m # Nil /\ m.interval >= 1) =>
        /\ Undelivered <= 1
        /\ gpc = "send" => (inq = <<>> /\ s = Received - 1)
        /\ IsIncreasing(StatsOf(sent))
        /\ \A j \in 0..(Received - 1) :
              j % m.interval = 0 =>
                 \/ \E n \in 1..Len(sent) : sent[n].Stats = j
                 \/ gpc \in {"test", "send"} /\ s = j

\* the destination is full, the unit is blocked at the send holding r2 after
\* r0 went out, and the stream could deliver more
C4_Witness ==
    /\ m # Nil
    /\ m.interval = 2
    /\ hpc = "stats"
    /\ gpc = "send"
    /\ Len(ch) = ChanCap
    /\ s = 2
    /\ StatsOf(sent) = <<0>>
    /\ pushed < MaxRaw

-----------------------------------------------------------------------------
(* C5 *)

\* the part of a tag map that extractTagsFromApp writes
AppPart(t) ==
    LET keys == DOMAIN t \ ({"task"} \cup IndexedKeys("task", Cardinality(DOMAIN t)))
    IN [k \in keys |-> t[k]]

IsScenario1(c) ==
    /\ DOMAIN c.Labels = {appLabel}
    /\ c.Labels[appLabel] = InfraWebApi
    /\ c.Env = <<>>

\* C5 as stated: for a container whose direct app label is "/infra/web/api",
\* with no location keys and no trim-prefix entry, the app-derived part of the
\* TagSet is exactly {app_id: "/infra/web/api", app: "api",
\* group: "infra/web", group1: "infra/web"}.
C5_Scenario1AsStated ==
    (m # Nil /\ IsScenario1(container)) =>
        AppPart(m.tags) =
            [app_id |-> InfraWebApi,
             app |-> <<"a", "p", "i">>,
             group |-> <<"i", "n", "f", "r", "a", "/", "w", "e", "b">>,
             group1 |-> <<"i", "n", "f", "r", "a", "/", "w", "e", "b">>]

\* C5 amended: for that container the app-derived part of the TagSet is exactly
\* {app_id: "/infra/web/api", app: "api", group: "/infra/web",
\* group1: "/infra", group2: "/infra/web"}: the leading "/" gives an empty
\* first segment, which is kept.
C5_Scenario1 ==
    (m # Nil /\ IsScenario1(container)) =>
        AppPart(m.tags) =
            [app_id |-> InfraWebApi,
             app |-> <<"a", "p", "i">>,
             group |-> <<"/", "i", "n", "f", "r", "a", "/", "w", "e", "b">>,
             group1 |-> <<"/", "i", "n", "f", "r", "a">>,
             group2 |-> <<"/", "i", "n", "f", "r", "a", "/", "w", "e", "b">>]

\* NewMonitor has returned a Monitor for the scenario's container
C5_Witness ==
    /\ m # Nil
    /\ err = "nil"
    /\ IsScenario1(container)
    /\ m.app = InfraWebApi
    /\ "group2" \in DOMAIN m.tags

-----------------------------------------------------------------------------
(* C9 *)

\* C9 as stated: once the stream call has returned and handle has returned,
\* the unit sends no further tagged snapshot to the output destination.
C9_NoSendAfterReturn == [][hpc = "returned" => sent' = sent]_vars

\* C9 amended: once the stream call has returned (closing `in`) and handle has
\* returned, the unit takes no further raw snapshot and sends at most one
\* further tagged snapshot, the one it had already received; it terminates
\* once the output destination has accepted that pending send, and thus in
\* every run in which the consumer keeps receiving.
C9_AtMostOnePendingSend ==
    /\ [](afterRet <= 1)
    /\ [][hpc = "returned" => (pushed' = pushed /\ Received' = Received)]_vars
    /\ (hpc = "returned") ~> (gpc \in {"done", "panic"})

\* handle had returned while a send was pending; the send completed afterwards
\* and the goroutine ended
C9_Witness ==
    /\ hpc = "returned"
    /\ afterRet = 1
    /\ gpc = "done"

-----------------------------------------------------------------------------
(* C10 *)

\* C10: an interval <= 0 is rejected at construction: NewMonitor called with
\* interval <= 0 returns no Monitor, so no sampler runs with a zero or negative
\* interval and no modulo by zero or by a negative number is ever evaluated.
C10_IntervalRejected ==
    /\ m # Nil => m.interval >= 1
    /\ gpc # "panic"

=============================================================================
